---- MODULE Spec2Model ----
(***************************************************************************)
(* DivTracker (src/AlpacaReporter_Divtracker/divtracker.py): the weekly    *)
(* reconciliation run by DivTracker.alpaca_sync_all, the activity fetch    *)
(* that feeds it, and the handlers that edit and persist the tracked       *)
(* state between two syncs.                                                *)
(*                                                                         *)
(* Representation.  Money is an integer number of cents; every amount of   *)
(* the modelled feed is a whole number of dollars, so the float sums of    *)
(* the code are exact and "%.2f" rounds without ties.  A numeric table     *)
(* cell is <<>> when its text is empty and <<n>> when it shows n (cents,   *)
(* or units for share counts).  The KW, Div/W, date and id texts are       *)
(* strings.                                                                *)
(*                                                                         *)
(* Spec runs the handlers in any order from a first start.  SpecRecon runs *)
(* one sync from a first start, or from one followed by add_etf, and keeps *)
(* the locals of that sync in the history variable run.  SpecEdit runs     *)
(* syncs, cell edits, add_week and the trade editor in any order on one    *)
(* account history and keeps the locals of the last sync in run.           *)
(***************************************************************************)
EXTENDS Integers, Sequences, FiniteSets, TLC

VARIABLES
    states,        \* self.states, in dict order: sequence of [sym, invest, rows]
    current_etf,   \* self.current_etf
    table,         \* self.table: the rows shown for current_etf
    invest_input,  \* self.invest_input, in cents
    trades_cache,  \* self.trades_cache: [sym -> [kw -> trade list]]
    stateFile,     \* STATE_FILE
    syncFile,      \* SYNC_STATE_FILE
    tradesFile,    \* TRADES_CACHE_FILE
    ignoredFile,   \* IGNORED_TRADES_FILE: the set of ignored order ids
    etf_selector,  \* the items of self.etf_selector
    today,         \* index in Days of datetime.today()
    pinned,        \* history: the Div/W text the user last typed per <<sym, kw>>
    last,          \* history: what the last handler was and how its sync ended
    run,           \* history: the locals of the last traced sync, if any
    steps          \* history: how many handlers have run

vars == <<states, current_etf, table, invest_input, trades_cache, stateFile,
          syncFile, tradesFile, ignoredFile, etf_selector, today, pinned, last, run, steps>>

-----------------------------------------------------------------------------
(* Bounds *)

\* longest activity list one sync of Spec fetches
MaxActs == 1

\* longest activity list one sync of SpecRecon fetches
MaxReconActs == 3

\* page size of the activity endpoint, scaled down from the code's 100
PageSize == 2

\* most handler runs and days passed in one behaviour of Spec or SpecEdit
MaxSteps == 4

\* in SpecEdit the handler runs that may be syncs: the first MaxEditSyncs
MaxEditSyncs == 3

-----------------------------------------------------------------------------
(* Values *)

Syms == {"ULTY", "MSTY"}

DefaultSym == "ULTY"

\* the days activities and syncs fall on, in calendar order
Days == <<"2024-12-27", "2024-12-30", "2025-01-06", "2025-01-13">>

Abs(n) == IF n < 0 THEN -n ELSE n

\* int(a / b) of Python for b > 0: truncation toward zero
TruncDiv(a, b) == IF a >= 0 THEN a \div b ELSE -((-a) \div b)

\* a / b rounded to the nearest integer, ties to even, for b > 0
\* (what "%.2f" and "%.4f" do to the exact quotient)
RoundDiv(a, b) ==
    LET q == a \div b
        r == a % b
    IN  IF 2 * r < b THEN q
        ELSE IF 2 * r > b THEN q + 1
        ELSE IF q % 2 = 0 THEN q ELSE q + 1

SeqToSet(s) == {s[i] : i \in DOMAIN s}

Min(a, b) == IF a <= b THEN a ELSE b

-----------------------------------------------------------------------------
(* Week keys: dt.isocalendar() and the "WW/YYYY" text *)

\* datetime.fromisoformat(d).isocalendar() for the days of Days: <<year, week>>
IsoCalendar(d) ==
    CASE d = "2024-12-27" -> <<2024, 52>>
      [] d = "2024-12-30" -> <<2025, 1>>
      [] d = "2025-01-06" -> <<2025, 2>>
      [] d = "2025-01-13" -> <<2025, 3>>

\* the date texts datetime.fromisoformat accepts
ValidDates == SeqToSet(Days)

\* f"{w:02d}"
Pad2(n) == IF n < 10 THEN "0" \o ToString(n) ELSE ToString(n)

\* f"{w:02d}/{y}"
KwText(y, w) == Pad2(w) \o "/" \o ToString(y)

\* y, w, _ = dt.isocalendar(); kw = f"{w:02d}/{y}", per date text
KwTable == [d \in ValidDates |-> KwText(IsoCalendar(d)[1], IsoCalendar(d)[2])]

\* kw of an activity dated d
KwOf(d) == KwTable[d]

\* the week keys a sync can write
SyncKws == {KwTable[d] : d \in ValidDates}

\* (int(k.split("/")[1]), int(k.split("/")[0])), per week text a sync wrote
SortKeyTable ==
    [k \in SyncKws |->
        CHOOSE p \in {IsoCalendar(d) : d \in ValidDates} : KwText(p[1], p[2]) = k]

SortKey(k) == SortKeyTable[k]

KeyLess(a, b) == a[1] < b[1] \/ (a[1] = b[1] /\ a[2] < b[2])

\* sorted(weeks.keys(), key=...): the week texts of S in ascending (year, week)
RECURSIVE sorted_weeks(_)
sorted_weeks(S) ==
    IF S = {} THEN <<>>
    ELSE LET m == CHOOSE k \in S : \A o \in S : ~KeyLess(SortKey(o), SortKey(k))
         IN  <<m>> \o sorted_weeks(S \ {m})

-----------------------------------------------------------------------------
(* Cell texts *)

Blank == <<>>

Num(n) == <<n>>

\* float(text or 0) / int(text or 0) of a numeric cell
CellValue(c) == IF c = Blank THEN 0 ELSE c[1]

Pad4(n) ==
    IF n < 10 THEN "000" \o ToString(n)
    ELSE IF n < 100 THEN "00" \o ToString(n)
    ELSE IF n < 1000 THEN "0" \o ToString(n)
    ELSE ToString(n)

\* f"{gross_div / start_shares:.4f}" for gross_div in cents
RateText(gross_div, start_shares) ==
    LET q == RoundDiv(Abs(gross_div) * 100, start_shares)
    IN  (IF gross_div < 0 THEN "-" ELSE "")
        \o ToString(q \div 10000) \o "." \o Pad4(q % 10000)

\* text.strip() of a Div/W text: the texts of the model carry no blanks but " "
Strip(t) == IF t = " " THEN "" ELSE t

-----------------------------------------------------------------------------
(* The activity feed *)

Fill(id, sym, d, side, qty, price) ==
    [id |-> id, activity_type |-> "FILL", symbol |-> sym, date |-> d,
     type |-> "fill", side |-> side, qty |-> qty, price |-> price, amount |-> 0]

Div(id, sym, d, amount) ==
    [id |-> id, activity_type |-> "DIV", symbol |-> sym, date |-> d,
     type |-> "", side |-> "", qty |-> 0, price |-> 0, amount |-> amount]

Tax(id, sym, d, amount) ==
    [id |-> id, activity_type |-> "DIVNRA", symbol |-> sym, date |-> d,
     type |-> "", side |-> "", qty |-> 0, price |-> 0, amount |-> amount]

\* executions: amounts are cents, prices whole dollars
buy5    == Fill("f1", "ULTY", "2025-01-06", "buy", 5, 10000)
sell20  == Fill("f2", "ULTY", "2025-01-13", "sell", 20, 3000)
buy10   == Fill("f3", "ULTY", "2024-12-30", "buy", 10, 5000)
buy1    == Fill("f4", "ULTY", "2024-12-30", "buy", 1, 5000)
buyM    == Fill("f5", "MSTY", "2025-01-06", "buy", 3, 2000)
\* a fill that carries no price: a.get("price", 0)
buyFree == Fill("f6", "ULTY", "2025-01-06", "buy", 2, 0)
buyLate == Fill("f7", "ULTY", "2025-01-13", "buy", 4, 2500)
sellOld == Fill("f8", "ULTY", "2024-12-27", "sell", 1, 4000)

\* dividends and withholding tax (reported with its sign)
div10   == Div("d1", "ULTY", "2025-01-06", 1000)
div60   == Div("d2", "ULTY", "2024-12-30", 6000)
divM    == Div("d3", "MSTY", "2025-01-06", 700)
\* a record whose date text datetime.fromisoformat rejects
divBad  == Div("d4", "ULTY", "2025-13-45", 500)
\* a record without date and transaction_time
divNoDate == Div("d5", "ULTY", "", 500)
tax9    == Tax("t1", "ULTY", "2024-12-30", -900)

\* the records the account history of Spec is made of
FillsMain == {buy1, buyM, buyFree}
DivsMain  == {div10, divM, divBad, divNoDate}
TaxMain   == {tax9}

\* the records the account history of SpecRecon is made of
FillsRecon == {buy5, sell20, buy10, buy1, buyM, buyFree, buyLate, sellOld}
DivsRecon  == {div10, div60, divM, divBad}
TaxRecon   == {tax9}

\* what the endpoint holds per activity type: at most n records in all
Responses(F, D, T, n) ==
    UNION {
        {[FILL |-> f, DIV |-> d, DIVNRA |-> t] :
            f \in [1..c[1] -> F], d \in [1..c[2] -> D], t \in [1..c[3] -> T]} :
        c \in {x \in (0..n) \X (0..n) \X (0..n) : x[1] + x[2] + x[3] <= n}}

-----------------------------------------------------------------------------
(* get_activities_by_type, get_all_activities_complete *)

\* the page-th page of an answer
PageOf(answer, page) ==
    SubSeq(answer, (page - 1) * PageSize + 1, Min(page * PageSize, Len(answer)))

\* the while loop of get_activities_by_type from request number page on; the
\* request number failPage raises RequestException (0: none does)
RECURSIVE fetch_pages(_, _, _, _)
fetch_pages(answer, page, failPage, all_activities) ==
    IF page = failPage THEN all_activities
    ELSE LET data == PageOf(answer, page)
         IN  IF Len(data) = 0 THEN all_activities
             ELSE IF Len(data) < PageSize THEN all_activities \o data
             ELSE IF data[Len(data)].date = "" THEN all_activities \o data
             ELSE fetch_pages(answer, page + 1, failPage, all_activities \o data)

get_activities_by_type(answer, failPage) == fetch_pages(answer, 1, failPage, <<>>)

\* how many requests get_activities_by_type sends when none fails
RECURSIVE RequestCount(_, _)
RequestCount(answer, page) ==
    LET data == PageOf(answer, page)
    IN  IF Len(data) = 0 \/ Len(data) < PageSize \/ data[Len(data)].date = ""
        THEN page
        ELSE RequestCount(answer, page + 1)

\* the failures a fetch of resp can meet: per type 0 or the failing request
Failures(resp) ==
    {[FILL |-> a, DIV |-> b, DIVNRA |-> c] :
        a \in 0..RequestCount(resp.FILL, 1),
        b \in 0..RequestCount(resp.DIV, 1),
        c \in 0..RequestCount(resp.DIVNRA, 1)}

NoFailure == [FILL |-> 0, DIV |-> 0, DIVNRA |-> 0]

get_all_activities_complete(resp, fail) ==
    get_activities_by_type(resp.FILL, fail.FILL)
        \o get_activities_by_type(resp.DIV, fail.DIV)
        \o get_activities_by_type(resp.DIVNRA, fail.DIVNRA)

-----------------------------------------------------------------------------
(* Dicts *)

\* {}
EmptyMap == [k \in {} |-> 0]

\* m[k] = v
MapPut(m, k, v) == [x \in DOMAIN m \cup {k} |-> IF x = k THEN v ELSE m[x]]

\* self.states is a sequence of entries, in the insertion order of the dict
StateKeys(st) == {st[i].sym : i \in DOMAIN st}

StateOf(st, sym) == st[CHOOSE i \in DOMAIN st : st[i].sym = sym]

NewState(sym) == [sym |-> sym, invest |-> 0, rows |-> <<>>]

\* st[sym] = entry: in place when the key exists, appended otherwise
StatePut(st, sym, entry) ==
    IF sym \in StateKeys(st)
    THEN [i \in DOMAIN st |-> IF st[i].sym = sym THEN entry ELSE st[i]]
    ELSE Append(st, entry)

\* the orders a for loop over the set S can take
Orders(S) ==
    {o \in [1..Cardinality(S) -> S] : \A i, j \in DOMAIN o : i # j => o[i] # o[j]}

-----------------------------------------------------------------------------
(* alpaca_sync_all: which symbols are tracked *)

symbols_with_divs(acts) ==
    {acts[i].symbol : i \in {j \in DOMAIN acts :
        acts[j].activity_type \in {"DIV", "DIVNRA"} /\ acts[j].symbol # ""}}

\* defect: the loop of lines 563-566 left out, every tracked symbol stays
keep_symbols(st, with_divs) == st

\* for sym in list(self.states.keys()): if sym not in symbols_with_divs: pop
drop_symbols(st, with_divs) ==
    SelectSeq(st, LAMBDA e : e.sym \in with_divs)

\* for sym in symbols_with_divs: if sym not in self.states: create; order is
\* the order the for loop visits the new symbols in
create_symbols(st, order) ==
    st \o [i \in DOMAIN order |-> NewState(order[i])]

-----------------------------------------------------------------------------
(* alpaca_sync_all: the weekly buckets *)

EmptyBucket ==
    [div_gross |-> 0, div_tax |-> 0, buy_total_cost |-> 0, buy_total_qty |-> 0,
     sell_total_cost |-> 0, sell_total_qty |-> 0, trades |-> <<>>]

AddBucket(b, d) ==
    [div_gross |-> b.div_gross + d.div_gross,
     div_tax |-> b.div_tax + d.div_tax,
     buy_total_cost |-> b.buy_total_cost + d.buy_total_cost,
     buy_total_qty |-> b.buy_total_qty + d.buy_total_qty,
     sell_total_cost |-> b.sell_total_cost + d.sell_total_cost,
     sell_total_qty |-> b.sell_total_qty + d.sell_total_qty,
     trades |-> b.trades \o d.trades]

\* grouped is a sequence of [sym, weeks], in the insertion order of the
\* defaultdict; weeks maps a week text to its bucket
GroupedKeys(grouped) == {grouped[i].sym : i \in DOMAIN grouped}

WeeksOf(grouped, sym) ==
    IF sym \in GroupedKeys(grouped)
    THEN grouped[CHOOSE i \in DOMAIN grouped : grouped[i].sym = sym].weeks
    ELSE EmptyMap

BucketOf(grouped, sym, kw) ==
    IF kw \in DOMAIN WeeksOf(grouped, sym) THEN WeeksOf(grouped, sym)[kw]
    ELSE EmptyBucket

\* grouped[sym][kw][...] += ...
add_to_bucket(grouped, sym, kw, d) ==
    LET weeks == MapPut(WeeksOf(grouped, sym), kw, AddBucket(BucketOf(grouped, sym, kw), d))
    IN  IF sym \in GroupedKeys(grouped)
        THEN [i \in DOMAIN grouped |->
                 IF grouped[i].sym = sym THEN [sym |-> sym, weeks |-> weeks]
                 ELSE grouped[i]]
        ELSE Append(grouped, [sym |-> sym, weeks |-> weeks])

\* a.get("id", f"{sym}_{kw}")
order_id_of(a, kw) == IF a.id = "" THEN a.symbol \o "_" \o kw ELSE a.id

\* defect: lines 615-617 left out, an ignored fill is counted like any other
group_fill_unignored(acc, a, kw, ignored_trades) ==
    LET order_id == order_id_of(a, kw)
        seen == [acc EXCEPT !.seen_order_ids = @ \cup {order_id}]
        cost == a.qty * a.price
    IN  IF a.type \notin {"fill", "partial_fill"} THEN acc
        ELSE IF order_id \in acc.seen_order_ids THEN acc
        ELSE IF a.qty <= 0 THEN seen
        ELSE IF a.side = "buy"
        THEN [seen EXCEPT !.grouped = add_to_bucket(@, a.symbol, kw,
                 [EmptyBucket EXCEPT !.buy_total_cost = cost,
                                     !.buy_total_qty = a.qty,
                                     !.trades = <<[order_id |-> order_id,
                                                   qty |-> a.qty,
                                                   price |-> a.price]>>])]
        ELSE IF a.side = "sell"
        THEN [seen EXCEPT !.grouped = add_to_bucket(@, a.symbol, kw,
                 [EmptyBucket EXCEPT !.sell_total_cost = cost,
                                     !.sell_total_qty = a.qty])]
        ELSE seen

\* the body of "for a in acts" for a FILL
group_fill(acc, a, kw, ignored_trades) ==
    LET order_id == order_id_of(a, kw)
        seen == [acc EXCEPT !.seen_order_ids = @ \cup {order_id}]
        cost == a.qty * a.price
    IN  IF a.type \notin {"fill", "partial_fill"} THEN acc
        ELSE IF order_id \in acc.seen_order_ids THEN acc
        ELSE IF order_id \in ignored_trades THEN seen
        ELSE IF a.qty <= 0 THEN seen
        ELSE IF a.side = "buy"
        THEN [seen EXCEPT !.grouped = add_to_bucket(@, a.symbol, kw,
                 [EmptyBucket EXCEPT !.buy_total_cost = cost,
                                     !.buy_total_qty = a.qty,
                                     !.trades = <<[order_id |-> order_id,
                                                   qty |-> a.qty,
                                                   price |-> a.price]>>])]
        ELSE IF a.side = "sell"
        THEN [seen EXCEPT !.grouped = add_to_bucket(@, a.symbol, kw,
                 [EmptyBucket EXCEPT !.sell_total_cost = cost,
                                     !.sell_total_qty = a.qty])]
        ELSE seen

\* the body of "for a in acts"; raised: datetime.fromisoformat raised ValueError
group_activity(acc, a, tracked, ignored_trades) ==
    IF acc.raised THEN acc
    ELSE IF a.symbol = "" \/ a.symbol \notin tracked THEN acc
    ELSE IF a.date = "" THEN acc
    ELSE IF a.date \notin ValidDates THEN [acc EXCEPT !.raised = TRUE]
    ELSE LET kw == KwOf(a.date)
         IN  IF a.activity_type = "FILL" THEN group_fill(acc, a, kw, ignored_trades)
             ELSE IF a.activity_type = "DIV"
             THEN [acc EXCEPT !.grouped = add_to_bucket(@, a.symbol, kw,
                      [EmptyBucket EXCEPT !.div_gross = a.amount])]
             ELSE IF a.activity_type = "DIVNRA"
             THEN [acc EXCEPT !.grouped = add_to_bucket(@, a.symbol, kw,
                      [EmptyBucket EXCEPT !.div_tax = a.amount])]
             ELSE acc

RECURSIVE group_from(_, _, _, _, _)
group_from(acts, i, acc, tracked, ignored_trades) ==
    IF i > Len(acts) THEN acc
    ELSE group_from(acts, i + 1, group_activity(acc, acts[i], tracked, ignored_trades),
                    tracked, ignored_trades)

\* lines 572-645: [grouped, seen_order_ids, raised]
group_activities(acts, tracked, ignored_trades) ==
    group_from(acts, 1, [grouped |-> <<>>, seen_order_ids |-> {}, raised |-> FALSE],
               tracked, ignored_trades)

-----------------------------------------------------------------------------
(* alpaca_sync_all: the rows of one symbol *)

\* row = {c: "" for c in COLUMNS}
EmptyRow ==
    [KW |-> "", Start |-> Blank, DivW |-> "", Brutto |-> Blank, WHT |-> Blank,
     Netto |-> Blank, DRIP |-> Blank, Gesamt |-> Blank, Preis |-> Blank,
     Wert |-> Blank, AvgWoche |-> Blank, Jahr |-> Blank, Rendite |-> Blank,
     Edit |-> ""]

\* existing_rows = {r["KW"]: r for r in rows}: the last row of a week wins
HasExisting(rows, kw) == \E i \in DOMAIN rows : rows[i].KW = kw

ExistingRow(rows, kw) ==
    rows[CHOOSE i \in DOMAIN rows :
            rows[i].KW = kw /\ \A j \in DOMAIN rows : rows[j].KW = kw => j <= i]

\* lines 716-725
div_per_share(rows, kw, gross_div, start_shares) ==
    IF HasExisting(rows, kw) /\ Strip(ExistingRow(rows, kw).DivW) # ""
    THEN ExistingRow(rows, kw).DivW
    ELSE IF start_shares > 0 THEN RateText(gross_div, start_shares)
    ELSE ""

\* defect: the dividend is not netted against the purchase, every buy adds
\* its whole cost to the invested capital
buy_processing_all_capital(vals, net_div, cumulative_shares, total_invested, current_price) ==
    IF vals.buy_total_qty > 0
    THEN [shares |-> cumulative_shares + vals.buy_total_qty,
          invested |-> total_invested + vals.buy_total_cost,
          Preis |-> Num(RoundDiv(vals.buy_total_cost, vals.buy_total_qty)),
          DRIP |-> Num(0),
          raised |-> FALSE]
    ELSE [shares |-> cumulative_shares,
          invested |-> total_invested,
          Preis |-> IF current_price > 0 THEN Num(current_price) ELSE Blank,
          DRIP |-> Num(0),
          raised |-> FALSE]

\* defect: DRIP is int(net_div / avg_buy_price) for every purchase with a
\* price, as recalculate_all has it, whether or not the dividend covers it
buy_processing_drip_always(vals, net_div, cumulative_shares, total_invested, current_price) ==
    IF vals.buy_total_qty > 0
    THEN [shares |-> cumulative_shares + vals.buy_total_qty,
          invested |-> IF net_div >= vals.buy_total_cost THEN total_invested
                       ELSE total_invested + (vals.buy_total_cost - net_div),
          Preis |-> Num(RoundDiv(vals.buy_total_cost, vals.buy_total_qty)),
          DRIP |-> IF vals.buy_total_cost = 0 THEN Num(0)
                   ELSE Num(TruncDiv(net_div * vals.buy_total_qty, vals.buy_total_cost)),
          raised |-> net_div >= vals.buy_total_cost /\ vals.buy_total_cost = 0]
    ELSE [shares |-> cumulative_shares,
          invested |-> total_invested,
          Preis |-> IF current_price > 0 THEN Num(current_price) ELSE Blank,
          DRIP |-> Num(0),
          raised |-> FALSE]

\* lines 727-745: [shares, invested, Preis, DRIP, raised]; raised is the
\* ZeroDivisionError of net_div / avg_buy_price
buy_processing(vals, net_div, cumulative_shares, total_invested, current_price) ==
    IF vals.buy_total_qty > 0
    THEN LET base == [shares |-> cumulative_shares + vals.buy_total_qty,
                      invested |-> total_invested,
                      Preis |-> Num(RoundDiv(vals.buy_total_cost, vals.buy_total_qty)),
                      DRIP |-> Num(0),
                      raised |-> FALSE]
         IN  IF net_div >= vals.buy_total_cost
             THEN IF vals.buy_total_cost = 0
                  THEN [base EXCEPT !.raised = TRUE]
                  ELSE [base EXCEPT !.DRIP =
                           Num(TruncDiv(net_div * vals.buy_total_qty, vals.buy_total_cost))]
             ELSE [base EXCEPT !.invested = @ + (vals.buy_total_cost - net_div)]
    ELSE [shares |-> cumulative_shares,
          invested |-> total_invested,
          Preis |-> IF current_price > 0 THEN Num(current_price) ELSE Blank,
          DRIP |-> Num(0),
          raised |-> FALSE]

\* defect: a sale takes its quantity off the balance instead of clearing it
sell_processing_subtracting(vals, shares, invested) ==
    IF vals.sell_total_qty > 0
    THEN [shares |-> shares - vals.sell_total_qty,
          invested |-> invested - vals.sell_total_cost]
    ELSE [shares |-> shares, invested |-> invested]

\* lines 747-751: [shares, invested]
sell_processing(vals, shares, invested) ==
    IF vals.sell_total_qty > 0
    THEN [shares |-> 0, invested |-> invested - vals.sell_total_cost]
    ELSE [shares |-> shares, invested |-> invested]

\* defect: the withholding tax is not taken off the dividend
gross_div_of(vals) == vals.div_gross

\* net_div = gross_div - abs(div_tax)
net_div_of(vals) == vals.div_gross - Abs(vals.div_tax)

\* defect: Start is written after the week's trades instead of before them
week_row_start_after(kw, vals, div_w, start_shares, buy, sell, cumulative_div_total, week_count, current_price) ==
    [KW |-> kw,
     Start |-> Num(buy.shares),
     DivW |-> div_w,
     Brutto |-> Num(vals.div_gross),
     WHT |-> Num(Abs(vals.div_tax)),
     Netto |-> Num(vals.div_gross - Abs(vals.div_tax)),
     DRIP |-> buy.DRIP,
     Gesamt |-> Num(sell.shares),
     Preis |-> buy.Preis,
     Wert |-> IF current_price > 0 THEN Num(sell.shares * current_price) ELSE Num(0),
     AvgWoche |-> Num(RoundDiv(cumulative_div_total, week_count)),
     Jahr |-> Num(RoundDiv(cumulative_div_total * 52, week_count)),
     Rendite |-> Num(cumulative_div_total - sell.invested),
     Edit |-> "Edit"]

\* the row of week kw (lines 691-787), the week's locals being given
week_row(kw, vals, div_w, start_shares, buy, sell, cumulative_div_total, week_count, current_price) ==
    [KW |-> kw,
     Start |-> Num(start_shares),
     DivW |-> div_w,
     Brutto |-> Num(vals.div_gross),
     WHT |-> Num(Abs(vals.div_tax)),
     Netto |-> Num(net_div_of(vals)),
     DRIP |-> buy.DRIP,
     Gesamt |-> Num(sell.shares),
     Preis |-> buy.Preis,
     Wert |-> IF current_price > 0 THEN Num(sell.shares * current_price) ELSE Num(0),
     AvgWoche |-> Num(RoundDiv(cumulative_div_total, week_count)),
     Jahr |-> Num(RoundDiv(cumulative_div_total * 52, week_count)),
     Rendite |-> Num(cumulative_div_total - sell.invested),
     Edit |-> "Edit"]

\* the locals after week kw, buy and sell being what the two blocks computed
week_done(acc, kw, vals, div_w, buy, sell, current_price) ==
    [rows |-> Append(acc.rows,
                     week_row(kw, vals, div_w, acc.cumulative_shares, buy, sell,
                              acc.cumulative_div_total + net_div_of(vals),
                              acc.week_count + 1, current_price)),
     total_invested |-> sell.invested,
     cumulative_shares |-> sell.shares,
     cumulative_div_total |-> acc.cumulative_div_total + net_div_of(vals),
     week_count |-> acc.week_count + 1,
     cached |-> Append(acc.cached, kw),
     steps |-> Append(acc.steps,
                      [kw |-> kw, vals |-> vals,
                       invested_before |-> acc.total_invested,
                       invested_after |-> sell.invested,
                       shares_before |-> acc.cumulative_shares,
                       shares_after |-> sell.shares,
                       DRIP |-> buy.DRIP]),
     raised |-> FALSE]

\* the week from the buy block on; a raise leaves the week cached and no row
week_after_buy(acc, kw, vals, existing, current_price, buy) ==
    IF buy.raised
    THEN [acc EXCEPT !.raised = TRUE, !.cached = Append(@, kw)]
    ELSE week_done(acc, kw, vals,
                   div_per_share(existing, kw, vals.div_gross, acc.cumulative_shares),
                   buy, sell_processing(vals, buy.shares, buy.invested), current_price)

\* the body of "for kw in sorted_weeks" (lines 690-789); acc holds the locals
reconcile_week(acc, kw, vals, existing, current_price) ==
    IF acc.raised THEN acc
    ELSE week_after_buy(acc, kw, vals, existing, current_price,
                        buy_processing(vals, net_div_of(vals), acc.cumulative_shares,
                                       acc.total_invested, current_price))

RECURSIVE reconcile_from(_, _, _, _, _, _)
reconcile_from(order, i, acc, weeks, existing, current_price) ==
    IF i > Len(order) THEN acc
    ELSE reconcile_from(order, i + 1,
                        reconcile_week(acc, order[i], weeks[order[i]], existing,
                                       current_price),
                        weeks, existing, current_price)

\* lines 658-661: the price of the first position of sym, 0.0 without one
current_price_of(positions, sym) ==
    IF \E i \in DOMAIN positions : positions[i].symbol = sym
    THEN positions[CHOOSE i \in DOMAIN positions :
             positions[i].symbol = sym
             /\ \A j \in DOMAIN positions : positions[j].symbol = sym => i <= j].current_price
    ELSE 0

\* lines 663-672
with_current_week(weeks, current_kw) ==
    IF current_kw \in DOMAIN weeks THEN weeks ELSE MapPut(weeks, current_kw, EmptyBucket)

\* defect: rows starts as the stored rows instead of [], so a sync appends
\* its rows to those of the sync before
reconcile_weeks_appending(weeks, existing, current_price) ==
    reconcile_from(sorted_weeks(DOMAIN weeks), 1,
                   [rows |-> existing, total_invested |-> 0, cumulative_shares |-> 0,
                    cumulative_div_total |-> 0, week_count |-> 0,
                    cached |-> <<>>, steps |-> <<>>, raised |-> FALSE],
                   weeks, existing, current_price)

\* lines 674-789: the loop over the sorted weeks
reconcile_weeks(weeks, existing, current_price) ==
    reconcile_from(sorted_weeks(DOMAIN weeks), 1,
                   [rows |-> <<>>, total_invested |-> 0, cumulative_shares |-> 0,
                    cumulative_div_total |-> 0, week_count |-> 0,
                    cached |-> <<>>, steps |-> <<>>, raised |-> FALSE],
                   weeks, existing, current_price)

\* lines 655-791 for one symbol of grouped
reconcile_symbol(weeks, existing, current_price, current_kw) ==
    reconcile_weeks(with_current_week(weeks, current_kw), existing, current_price)

-----------------------------------------------------------------------------
(* alpaca_sync_all: all symbols *)

\* self.trades_cache[sym][kw] = vals["trades"] for the weeks in cached
RECURSIVE cache_weeks(_, _, _, _, _)
cache_weeks(cache, sym, cached, i, weeks) ==
    IF i > Len(cached) THEN cache
    ELSE cache_weeks(
             MapPut(cache, sym,
                    MapPut(IF sym \in DOMAIN cache THEN cache[sym] ELSE EmptyMap,
                           cached[i], weeks[cached[i]].trades)),
             sym, cached, i + 1, weeks)

\* what the try block has in memory when it raises or reaches line 796;
\* grouped and steps are its locals
SyncResult(raised, st, cache, grouped, trace) ==
    [raised |-> raised, states |-> st, trades_cache |-> cache,
     grouped |-> grouped, steps |-> trace]

\* lines 793-794, or the raise that skips them; r is what the week loop left
symbol_done(acc, sym, weeks, r) ==
    IF r.raised
    THEN [acc EXCEPT !.raised = TRUE,
                     !.trades_cache = cache_weeks(@, sym, r.cached, 1, weeks)]
    ELSE [acc EXCEPT !.states = StatePut(@, sym,
                                  [StateOf(@, sym) EXCEPT
                                      !.invest = r.total_invested, !.rows = r.rows]),
                     !.trades_cache = cache_weeks(@, sym, r.cached, 1, weeks),
                     !.steps = MapPut(@, sym, r.steps)]

\* the body of "for sym, weeks in grouped.items()" (lines 650-794)
sync_symbol(acc, entry, positions, current_kw) ==
    IF acc.raised THEN acc
    ELSE symbol_done(acc, entry.sym, with_current_week(entry.weeks, current_kw),
                     reconcile_symbol(entry.weeks, StateOf(acc.states, entry.sym).rows,
                                      current_price_of(positions, entry.sym),
                                      current_kw))

RECURSIVE sync_symbols(_, _, _, _, _)
sync_symbols(grouped, i, acc, positions, current_kw) ==
    IF i > Len(grouped) THEN acc
    ELSE sync_symbols(grouped, i + 1,
                      sync_symbol(acc, grouped[i], positions, current_kw),
                      positions, current_kw)

\* lines 647-794, g being what the loop over acts left
sync_grouped(tracked, cache, etf, g, positions, current_kw) ==
    IF g.raised
    THEN SyncResult(TRUE, tracked, cache, g.grouped, EmptyMap)
    ELSE sync_symbols(g.grouped, 1,
                      SyncResult(FALSE, tracked,
                                 IF etf \in DOMAIN cache THEN cache
                                 ELSE MapPut(cache, etf, EmptyMap),
                                 g.grouped, EmptyMap),
                      positions, current_kw)

\* lines 572-794, tracked being self.states after lines 563-570
sync_tracked(tracked, cache, etf, acts, positions, ignored_trades, current_kw) ==
    sync_grouped(tracked, cache, etf,
                 group_activities(acts, StateKeys(tracked), ignored_trades),
                 positions, current_kw)

\* the try block of alpaca_sync_all up to the writes (lines 549-794).
\* acts: what get_all_activities_complete returned; pos_ok: whether
\* get_alpaca_positions returned; order: the order "for sym in
\* symbols_with_divs" visits the new symbols in.
sync_compute(st, cache, etf, acts, pos_ok, positions, order, ignored_trades, current_kw) ==
    IF ~pos_ok
    THEN SyncResult(TRUE, st, cache, <<>>, EmptyMap)
    ELSE sync_tracked(create_symbols(drop_symbols(st, symbols_with_divs(acts)), order),
                      cache, etf, acts, positions, ignored_trades, current_kw)

-----------------------------------------------------------------------------
(* The table *)

\* populate_table: the cells of the stored rows; the Edit column is a button
populate_table(rows) == [i \in DOMAIN rows |-> [rows[i] EXCEPT !.Edit = ""]]

\* create_empty_row
create_empty_row == <<EmptyRow>>

\* the body of the for loop of recalculate_all for row r; total is
\* total_netto_dividends after the row
recalculate_row(row, r, total, ini) ==
    LET price == CellValue(row.Preis)
        netto == CellValue(row.Netto)
        drip == IF price # 0 /\ netto # 0 THEN TruncDiv(netto, price) ELSE 0
        total_shares == CellValue(row.Gesamt)
    IN  [row EXCEPT !.DRIP = Num(drip),
                    !.Wert = Num(total_shares * price),
                    !.AvgWoche = Num(RoundDiv(total, r)),
                    !.Jahr = Num(RoundDiv(total * 52, r)),
                    !.Rendite = Num(total - ini)]

RECURSIVE netto_total(_, _)
netto_total(t, r) == IF r = 0 THEN 0 ELSE netto_total(t, r - 1) + CellValue(t[r].Netto)

recalculate_all(t, ini) ==
    [r \in DOMAIN t |-> recalculate_row(t[r], r, netto_total(t, r), ini)]

\* refresh_from_state: [invest_input, table]
refresh_from_state(st, etf) ==
    LET entry == IF etf \in StateKeys(st) THEN StateOf(st, etf) ELSE NewState(etf)
        shown == IF Len(entry.rows) > 0 THEN populate_table(entry.rows)
                 ELSE create_empty_row
    IN  [invest_input |-> entry.invest,
         table |-> recalculate_all(shown, entry.invest)]

\* save_state: self.states[self.current_etf] = {"invest": ..., "rows": ...}
save_state(st, etf, t, ini) ==
    StatePut(st, etf, [sym |-> etf, invest |-> ini, rows |-> t])

-----------------------------------------------------------------------------
(* Files *)

NoStateFile == [exists |-> FALSE, states |-> <<>>, last_viewed |-> ""]

\* save_all_states(states)
save_all_states(st) == [exists |-> TRUE, states |-> st, last_viewed |-> ""]

\* save_last_viewed_etf(etf): load_all_states, set the key, save_all_states
save_last_viewed_etf(file, etf) ==
    [exists |-> TRUE, states |-> file.states, last_viewed |-> etf]

NoSyncFile == [exists |-> FALSE, last_activity_after |-> 0]

\* save_sync_state({"last_activity_after": until}); until is the day after day
save_sync_state(day) == [exists |-> TRUE, last_activity_after |-> day + 1]

NoTradesFile == [exists |-> FALSE, cache |-> EmptyMap]

save_trades_cache(cache) == [exists |-> TRUE, cache |-> cache]

\* defect: the sync checkpoint is written before the computation, so a
\* sync that raises has written it already
files_checkpoint_first(raised, old, st, cache, day) ==
    IF raised THEN [old EXCEPT !.sync = save_sync_state(day)]
    ELSE [state |-> save_all_states(st),
          sync |-> save_sync_state(day),
          trades |-> save_trades_cache(cache)]

\* what the three writes of lines 796-798 leave, or the files as they were
\* when the try block raised before them
files_after_sync(raised, old, st, cache, day) ==
    IF raised THEN old
    ELSE [state |-> save_all_states(st),
          sync |-> save_sync_state(day),
          trades |-> save_trades_cache(cache)]

\* lines 806-814: the symbol shown after a sync
etf_after_sync(st, saved_etf) ==
    IF saved_etf \in StateKeys(st) THEN saved_etf
    ELSE IF Len(st) > 0 THEN st[1].sym
    ELSE saved_etf

-----------------------------------------------------------------------------
(* History variables *)

NoRun == [traced |-> FALSE]

NoPins == EmptyMap

Handled(op) == [op |-> op, sync |-> "none", fetch_failed |-> FALSE, div_syms |-> {}]

\* the symbols with a DIV or DIVNRA record in the fetched list
DividendSymbols(acts) ==
    {sym \in Syms : \E i \in DOMAIN acts :
        acts[i].symbol = sym /\ acts[i].activity_type \in {"DIV", "DIVNRA"}}

-----------------------------------------------------------------------------
(* What a sync can be handed *)

DayIndex(d) == CHOOSE i \in DOMAIN Days : Days[i] = d

\* the endpoint is asked for the records until tomorrow
Until(S, day) == {a \in S : a.date \in ValidDates => DayIndex(a.date) <= day}

\* what get_all_activities_complete can return of an account of at most n
\* records, and whether a request failed on the way
FetchResults(F, D, T, n) ==
    UNION {
        {[acts |-> get_all_activities_complete(resp, fail),
          fetch_failed |-> fail # NoFailure] : fail \in Failures(resp)} :
        resp \in Responses(F, D, T, n)}

\* per day, the fetches of Spec
MainFetches ==
    [day \in DOMAIN Days |->
        FetchResults(Until(FillsMain, day), Until(DivsMain, day), Until(TaxMain, day),
                     MaxActs)]

\* the positions of the account: ULTY is held, MSTY is not
Positions == <<[symbol |-> "ULTY", current_price |-> 5500]>>

\* get_alpaca_positions: it raises, or returns the positions of the account
PositionResults ==
    {[ok |-> FALSE, positions |-> <<>>], [ok |-> TRUE, positions |-> Positions]}

\* per day, the fetches of SpecRecon
ReconFetches ==
    [day \in DOMAIN Days |->
        FetchResults(Until(FillsRecon, day), Until(DivsRecon, day), Until(TaxRecon, day),
                     MaxReconActs)]

\* what the endpoint holds in SpecEdit: each record of the history or not
EditResponses ==
    {[FILL |-> f, DIV |-> d, DIVNRA |-> <<>>] :
        f \in {<<>>, <<buy10>>}, d \in {<<>>, <<div60>>, <<div10>>, <<div60, div10>>}}

\* the fetches of SpecEdit: no request fails
EditFetches ==
    {[acts |-> get_all_activities_complete(resp, NoFailure), fetch_failed |-> FALSE] :
        resp \in EditResponses}

\* get_alpaca_positions in SpecEdit: it returns the positions of the account
EditPositions == {[ok |-> TRUE, positions |-> Positions]}

\* the week text a user types into a KW cell
KwTexts == {"02/2025"}

\* the ignore files SpecRecon starts with
ReconIgnored == {{}, {"f1", "f2"}}

\* the tracked state SpecRecon starts with: the default of a first start, or
\* that with a symbol added by add_etf
ReconStarts == {<<NewState(DefaultSym)>>, <<NewState(DefaultSym), NewState("MSTY")>>}

\* the texts a user types into a Div/W cell
DivWTexts == {"", " ", "0.45"}

-----------------------------------------------------------------------------
(* Handlers *)

files == [state |-> stateFile, sync |-> syncFile, trades |-> tradesFile]

\* the locals of a sync, kept for the properties that speak of one run
Traced(fetch, pos, ignored_trades, order, res) ==
    [traced |-> TRUE, acts |-> fetch.acts, pos_ok |-> pos.ok,
     positions |-> pos.positions, ignored_trades |-> ignored_trades,
     order |-> order, before |-> states, cache_before |-> trades_cache,
     saved_etf |-> current_etf, day |-> today,
     raised |-> res.raised, grouped |-> res.grouped, steps |-> res.steps]

\* lines 796-817 or the except clause, res being what the try block left,
\* etf the symbol shown after it and written the files after it
sync_finish(op, fetch, res, etf, written) ==
    /\ states' = res.states
    /\ trades_cache' = res.trades_cache
    /\ stateFile' = written.state
    /\ syncFile' = written.sync
    /\ tradesFile' = written.trades
    /\ current_etf' = IF res.raised THEN current_etf ELSE etf
    /\ table' = IF res.raised THEN table
                ELSE refresh_from_state(res.states, etf).table
    /\ invest_input' = IF res.raised THEN invest_input
                       ELSE refresh_from_state(res.states, etf).invest_input
    /\ etf_selector' = IF res.raised THEN etf_selector ELSE StateKeys(res.states)
    /\ last' = [op |-> op,
                sync |-> IF res.raised THEN "failed" ELSE "ok",
                fetch_failed |-> fetch.fetch_failed,
                div_syms |-> DividendSymbols(fetch.acts)]

sync_done(op, fetch, pos, ignored_trades, traced, order, res) ==
    /\ sync_finish(op, fetch, res, etf_after_sync(res.states, current_etf),
                   files_after_sync(res.raised, files, res.states, res.trades_cache,
                                    today))
    /\ run' = IF traced THEN Traced(fetch, pos, ignored_trades, order, res) ELSE NoRun

\* alpaca_sync_all with get_all_activities_complete ending as fetch,
\* get_alpaca_positions ending as pos, and the ignore file holding
\* ignored_trades.  The API key is taken to be configured.
alpaca_sync_all(op, ignored_trades, fetch, pos, traced) ==
    \E order \in Orders(symbols_with_divs(fetch.acts) \ StateKeys(states)) :
        sync_done(op, fetch, pos, ignored_trades, traced, order,
                  sync_compute(states, trades_cache, current_etf, fetch.acts, pos.ok,
                               pos.positions, order, ignored_trades,
                               KwOf(Days[today])))

\* the button "Alpaca Sync"
Sync ==
    /\ steps < MaxSteps
    /\ steps' = steps + 1
    /\ \E fetch \in MainFetches[today] :
         \E pos \in PositionResults :
           alpaca_sync_all("sync", ignoredFile, fetch, pos, FALSE)
    /\ UNCHANGED <<ignoredFile, today, pinned>>

\* on_cell_changed for the Div/W cell of row r: recalculate_all, save_state
EditDivW ==
    /\ steps < MaxSteps
    /\ steps' = steps + 1
    /\ \E r \in DOMAIN table :
         \E text \in DivWTexts \ {table[r].DivW} :
           LET edited == recalculate_all([table EXCEPT ![r].DivW = text], invest_input)
               saved == save_state(states, current_etf, edited, invest_input)
           IN  /\ table' = edited
               /\ states' = saved
               /\ stateFile' = save_all_states(saved)
               /\ pinned' = IF table[r].KW = "" THEN pinned
                            ELSE MapPut(pinned, <<current_etf, table[r].KW>>, text)
    /\ last' = Handled("on_cell_changed")
    /\ run' = run
    /\ UNCHANGED <<current_etf, invest_input, trades_cache, syncFile,
                   tradesFile, ignoredFile, etf_selector, today>>

\* on_cell_changed for the KW cell of row r: recalculate_all, save_state
EditKW ==
    /\ steps < MaxSteps
    /\ steps' = steps + 1
    /\ \E r \in DOMAIN table :
         \E text \in KwTexts \ {table[r].KW} :
           LET edited == recalculate_all([table EXCEPT ![r].KW = text], invest_input)
               saved == save_state(states, current_etf, edited, invest_input)
           IN  /\ table' = edited
               /\ states' = saved
               /\ stateFile' = save_all_states(saved)
    /\ last' = Handled("on_cell_changed")
    /\ run' = run
    /\ UNCHANGED <<current_etf, invest_input, trades_cache, syncFile,
                   tradesFile, ignoredFile, etf_selector, today, pinned>>

\* add_week: a row of empty cells at the end, recalculate_all, save_state
add_week ==
    /\ steps < MaxSteps
    /\ steps' = steps + 1
    /\ LET edited == recalculate_all(Append(table, EmptyRow), invest_input)
           saved == save_state(states, current_etf, edited, invest_input)
       IN  /\ table' = edited
           /\ states' = saved
           /\ stateFile' = save_all_states(saved)
    /\ last' = Handled("add_week")
    /\ run' = run
    /\ UNCHANGED <<current_etf, invest_input, trades_cache, syncFile,
                   tradesFile, ignoredFile, etf_selector, today, pinned>>

\* add_etf: the two currentTextChanged signals end with the new name shown
add_etf ==
    /\ steps < MaxSteps
    /\ steps' = steps + 1
    /\ \E name \in Syms \ StateKeys(states) :
         LET added == Append(states, NewState(name))
             shown == refresh_from_state(added, name)
         IN  /\ states' = added
             /\ etf_selector' = StateKeys(added)
             /\ current_etf' = name
             /\ table' = shown.table
             /\ invest_input' = shown.invest_input
             /\ stateFile' = save_all_states(added)
    /\ last' = Handled("add_etf")
    /\ run' = run
    /\ UNCHANGED <<trades_cache, syncFile, tradesFile, ignoredFile, today, pinned>>

\* on_etf_changed: the user picks another item of the selector
on_etf_changed ==
    /\ steps < MaxSteps
    /\ steps' = steps + 1
    /\ \E etf \in etf_selector \ {current_etf} :
         LET shown == refresh_from_state(states, etf)
         IN  /\ current_etf' = etf
             /\ stateFile' = save_last_viewed_etf(stateFile, etf)
             /\ table' = shown.table
             /\ invest_input' = shown.invest_input
    /\ last' = Handled("on_etf_changed")
    /\ run' = run
    /\ UNCHANGED <<states, trades_cache, syncFile, tradesFile, ignoredFile,
                   etf_selector, today, pinned>>

\* the order ids the dialog shows a check box for
trade_checks(trades, sym, kw) == {trades[i].order_id : i \in DOMAIN trades}

\* defect: the ignore file is rewritten from the check boxes of the dialog, the
\* flags of trades it does not show are lost
accept_only_checked(ignored_trades, shown, checked) == checked

\* TradeEditorDialog.accept: the ignore file after OK with `checked` ticked
accept(ignored_trades, shown, checked) == (ignored_trades \ shown) \cup checked

\* open_trade_editor for some row, closed with OK: accept, then
\* alpaca_sync_all, whose fetches end as one of fetches and one of positions
trade_editor(fetches, positions, traced) ==
    \E r \in DOMAIN table :
        LET kw == table[r].KW
        IN  /\ kw # ""
            /\ current_etf \in DOMAIN trades_cache
            /\ kw \in DOMAIN trades_cache[current_etf]
            /\ LET shown == trade_checks(trades_cache[current_etf][kw], current_etf, kw)
               IN  \E checked \in SUBSET shown :
                     /\ ignoredFile' = accept(ignoredFile, shown, checked)
                     /\ \E fetch \in fetches :
                          \E pos \in positions :
                            alpaca_sync_all("open_trade_editor",
                                            accept(ignoredFile, shown, checked),
                                            fetch, pos, traced)

open_trade_editor ==
    /\ trade_editor(MainFetches[today], PositionResults, FALSE)
    /\ steps < MaxSteps
    /\ steps' = steps + 1
    /\ UNCHANGED <<today, pinned>>

\* a day passes
Tick ==
    /\ steps < MaxSteps
    /\ steps' = steps + 1
    /\ today < Len(Days)
    /\ today' = today + 1
    /\ last' = Handled("tick")
    /\ run' = run
    /\ UNCHANGED <<states, current_etf, table, invest_input, trades_cache, stateFile,
                   syncFile, tradesFile, ignoredFile, etf_selector, pinned>>

-----------------------------------------------------------------------------
(* The program *)

\* DivTracker.__init__ on a first start: no file exists
Init ==
    /\ states = <<NewState(DefaultSym)>>
    /\ current_etf = DefaultSym
    /\ table = refresh_from_state(<<NewState(DefaultSym)>>, DefaultSym).table
    /\ invest_input = 0
    /\ trades_cache = EmptyMap
    /\ stateFile = NoStateFile
    /\ syncFile = NoSyncFile
    /\ tradesFile = NoTradesFile
    /\ ignoredFile = {}
    /\ etf_selector = {DefaultSym}
    /\ today = Len(Days) - 1
    /\ steps = 0
    /\ pinned = NoPins
    /\ last = Handled("init")
    /\ run = NoRun

Next ==
    \/ Sync
    \/ EditDivW
    \/ add_etf
    \/ on_etf_changed
    \/ open_trade_editor
    \/ Tick

Spec == Init /\ [][Next]_vars

-----------------------------------------------------------------------------
(* One sync, with its locals kept *)

\* a first start, or that followed by add_etf, which shows the added symbol
\* and writes the state file; an ignore file may be there from earlier use; the
\* day is the last one
InitRecon ==
    /\ states \in ReconStarts
    /\ current_etf = states[Len(states)].sym
    /\ table = refresh_from_state(states, states[Len(states)].sym).table
    /\ invest_input = 0
    /\ trades_cache = EmptyMap
    /\ stateFile = IF Len(states) = 1 THEN NoStateFile ELSE save_all_states(states)
    /\ syncFile = NoSyncFile
    /\ tradesFile = NoTradesFile
    /\ ignoredFile \in ReconIgnored
    /\ etf_selector = StateKeys(states)
    /\ today = Len(Days)
    /\ steps = 0
    /\ pinned = NoPins
    /\ last = Handled("init")
    /\ run = NoRun

\* the button "Alpaca Sync", pressed once
SyncRecon ==
    /\ steps = 0
    /\ steps' = 1
    /\ \E fetch \in ReconFetches[today] :
         \E pos \in PositionResults :
           alpaca_sync_all("sync", ignoredFile, fetch, pos, TRUE)
    /\ UNCHANGED <<ignoredFile, today, pinned>>

NextRecon == SyncRecon

SpecRecon == InitRecon /\ [][NextRecon]_vars

-----------------------------------------------------------------------------
(* Syncs, edits of the table and the trade editor, the locals of the last
   sync kept *)

\* a first start on the last day
InitEdit ==
    /\ states = <<NewState(DefaultSym)>>
    /\ current_etf = DefaultSym
    /\ table = refresh_from_state(<<NewState(DefaultSym)>>, DefaultSym).table
    /\ invest_input = 0
    /\ trades_cache = EmptyMap
    /\ stateFile = NoStateFile
    /\ syncFile = NoSyncFile
    /\ tradesFile = NoTradesFile
    /\ ignoredFile = {}
    /\ etf_selector = {DefaultSym}
    /\ today = Len(Days)
    /\ steps = 0
    /\ pinned = NoPins
    /\ last = Handled("init")
    /\ run = NoRun

\* the button "Alpaca Sync"
SyncEdit ==
    /\ steps < MaxEditSyncs
    /\ steps' = steps + 1
    /\ \E fetch \in EditFetches :
         \E pos \in EditPositions :
           alpaca_sync_all("sync", ignoredFile, fetch, pos, TRUE)
    /\ UNCHANGED <<ignoredFile, today, pinned>>

\* the Edit button of a row, the dialog closed with OK
TradeEdit ==
    /\ steps < MaxEditSyncs
    /\ steps' = steps + 1
    /\ trade_editor(EditFetches, EditPositions, TRUE)
    /\ UNCHANGED <<today, pinned>>

NextEdit ==
    \/ SyncEdit
    \/ TradeEdit
    \/ EditDivW
    \/ EditKW
    \/ add_week

SpecEdit == InitEdit /\ [][NextEdit]_vars

-----------------------------------------------------------------------------
(* Properties of the handlers between syncs *)

\* the stored rows of week kw of symbol sym
StoredRows(sym, kw) ==
    IF sym \in StateKeys(states)
    THEN SelectSeq(StateOf(states, sym).rows, LAMBDA r : r.KW = kw)
    ELSE <<>>

\* C1: once the user has typed a non-empty Div/W for a week of a symbol, the
\* stored row of that week shows exactly that text after every later sync
C1_PinnedDivWKept ==
    \A key \in DOMAIN pinned :
        (Strip(pinned[key]) # "" /\ last.sync # "none")
            => \A i \in DOMAIN StoredRows(key[1], key[2]) :
                   StoredRows(key[1], key[2])[i].DivW = pinned[key]

\* C2: a sync whose activity fetch met a failing request reports failure and
\* changes nothing: no symbol dropped or created, no row recomputed, no file
\* written
C2_FailedFetchFailsSync ==
    [][last'.fetch_failed /\ steps' # steps
          => /\ last'.sync = "failed"
             /\ states' = states
             /\ trades_cache' = trades_cache
             /\ stateFile' = stateFile
             /\ syncFile' = syncFile
             /\ tradesFile' = tradesFile]_vars

\* C3: a sync that ends in the except clause leaves the state file, the sync
\* checkpoint and the trades cache file as they were before it
C3_FailedSyncWritesNothing ==
    [][last'.sync = "failed" /\ steps' # steps
          => /\ stateFile' = stateFile
             /\ syncFile' = syncFile
             /\ tradesFile' = tradesFile]_vars

\* a sync has failed after it had changed the tracked symbols in memory, and
\* the state file still holds what was saved before it
C3_Witness ==
    /\ last.sync = "failed"
    /\ stateFile.exists
    /\ StateKeys(stateFile.states) # StateKeys(states)

\* C4: after a successful sync the tracked symbols are exactly the symbols
\* with a DIV or DIVNRA record in the fetched list, each tracked once
C4_TrackedAreDividendSymbols ==
    last.sync = "ok"
        => /\ StateKeys(states) = last.div_syms
           /\ Len(states) = Cardinality(last.div_syms)

\* a successful sync has dropped the default symbol and created another one
C4_Witness ==
    /\ last.sync = "ok"
    /\ DefaultSym \notin StateKeys(states)
    /\ StateKeys(states) # {}

-----------------------------------------------------------------------------
(* Properties of one sync *)

\* the traced sync reached its end
TracedOk == run.traced /\ ~run.raised

\* the symbols the traced sync wrote rows for
Reconciled == DOMAIN run.steps

RowsOf(sym) == StateOf(states, sym).rows

StepsOf(sym) == run.steps[sym]

\* C5: in the rows a sync wrote for a symbol, Start of the first row is 0
\* and Start of every later row is Gesamt of the row before it
C5_StartIsPreviousTotal ==
    TracedOk =>
        \A sym \in Reconciled :
            /\ Len(RowsOf(sym)) = Len(StepsOf(sym))
            /\ Len(RowsOf(sym)) > 0
            /\ RowsOf(sym)[1].Start = Num(0)
            /\ \A i \in 2..Len(RowsOf(sym)) :
                   RowsOf(sym)[i].Start = RowsOf(sym)[i - 1].Gesamt

\* a sync wrote a row that starts from a balance carried over
C5_Witness ==
    /\ TracedOk
    /\ \E sym \in Reconciled :
         \E i \in 2..Len(RowsOf(sym)) : CellValue(RowsOf(sym)[i].Start) > 0

\* C6: Gesamt is never negative, and it is 0 in every week with a sale,
\* whatever was held before and bought in that week; the next week starts
\* from 0
C6_SellClearsTotal ==
    TracedOk =>
        \A sym \in Reconciled :
            \A i \in DOMAIN RowsOf(sym) :
                /\ RowsOf(sym)[i].Gesamt # Blank
                /\ CellValue(RowsOf(sym)[i].Gesamt) >= 0
                /\ StepsOf(sym)[i].vals.sell_total_qty > 0
                       => /\ RowsOf(sym)[i].Gesamt = Num(0)
                          /\ i < Len(RowsOf(sym))
                                 => RowsOf(sym)[i + 1].Start = Num(0)

\* a week with a sale of more shares than were held, and a week with a sale
\* and a purchase
C6_Witness ==
    /\ TracedOk
    /\ \E sym \in Reconciled :
         \E i \in DOMAIN StepsOf(sym) :
            /\ StepsOf(sym)[i].vals.sell_total_qty > 0
            /\ \/ /\ StepsOf(sym)[i].shares_before > 0
                  /\ StepsOf(sym)[i].shares_before < StepsOf(sym)[i].vals.sell_total_qty
               \/ StepsOf(sym)[i].vals.buy_total_qty > 0

\* netDiv of a bucket, as the specification defines it
NetDiv(vals) == vals.div_gross - Abs(vals.div_tax)

\* C7: a week with a purchase that the net dividend covers does not raise
\* the invested capital
C7_CoveredBuyAddsNoCapital ==
    TracedOk =>
        \A sym \in Reconciled :
            \A i \in DOMAIN StepsOf(sym) :
                (/\ StepsOf(sym)[i].vals.buy_total_qty > 0
                 /\ NetDiv(StepsOf(sym)[i].vals) >= StepsOf(sym)[i].vals.buy_total_cost)
                    => StepsOf(sym)[i].invested_after <= StepsOf(sym)[i].invested_before

\* a week with a purchase the net dividend covers
C7_Witness ==
    /\ TracedOk
    /\ \E sym \in Reconciled :
         \E i \in DOMAIN StepsOf(sym) :
            /\ StepsOf(sym)[i].vals.buy_total_qty > 0
            /\ StepsOf(sym)[i].vals.buy_total_cost > 0
            /\ NetDiv(StepsOf(sym)[i].vals) >= StepsOf(sym)[i].vals.buy_total_cost

\* what a week adds to the invested capital, by the rule of the specification
WeekCapital(vals) ==
    (IF vals.buy_total_qty > 0 /\ NetDiv(vals) < vals.buy_total_cost
     THEN vals.buy_total_cost - NetDiv(vals) ELSE 0)
    - (IF vals.sell_total_qty > 0 THEN vals.sell_total_cost ELSE 0)

\* C8: the invested capital starts at 0, changes in a week by the uncovered
\* part of the purchase less the proceeds of the sale and by nothing else (a
\* week without trades leaves it alone), an uncovered purchase shows DRIP 0,
\* and the stored invest is the capital after the last week
C8_CapitalChangesByBuysAndSells ==
    TracedOk =>
        \A sym \in Reconciled :
            /\ Len(StepsOf(sym)) > 0
            /\ StepsOf(sym)[1].invested_before = 0
            /\ StateOf(states, sym).invest = StepsOf(sym)[Len(StepsOf(sym))].invested_after
            /\ \A i \in DOMAIN StepsOf(sym) :
                 /\ StepsOf(sym)[i].invested_after
                        = StepsOf(sym)[i].invested_before + WeekCapital(StepsOf(sym)[i].vals)
                 /\ i > 1 => StepsOf(sym)[i].invested_before
                                 = StepsOf(sym)[i - 1].invested_after
                 /\ (/\ StepsOf(sym)[i].vals.buy_total_qty > 0
                     /\ NetDiv(StepsOf(sym)[i].vals) < StepsOf(sym)[i].vals.buy_total_cost)
                        => StepsOf(sym)[i].DRIP = Num(0)

\* buy 5 at $100 with a dividend of $10 has added $490, and the sale of 20
\* at $30 a week later has taken off $600
C8_Witness ==
    /\ TracedOk
    /\ "ULTY" \in Reconciled
    /\ \E i \in DOMAIN StepsOf("ULTY") :
         /\ i < Len(StepsOf("ULTY"))
         /\ StepsOf("ULTY")[i].vals.buy_total_cost = 50000
         /\ StepsOf("ULTY")[i].vals.buy_total_qty = 5
         /\ StepsOf("ULTY")[i].vals.div_gross = 1000
         /\ StepsOf("ULTY")[i].invested_after = StepsOf("ULTY")[i].invested_before + 49000
         /\ StepsOf("ULTY")[i + 1].vals.sell_total_qty = 20
         /\ StepsOf("ULTY")[i + 1].invested_after
                = StepsOf("ULTY")[i + 1].invested_before - 60000

\* acts without the records whose id an earlier record carries
RECURSIVE FirstOfEachId(_, _)
FirstOfEachId(acts, i) ==
    IF i > Len(acts) THEN <<>>
    ELSE (IF \E j \in 1..(i - 1) : acts[j].id = acts[i].id THEN <<>> ELSE <<acts[i]>>)
             \o FirstOfEachId(acts, i + 1)

\* C9: the buckets of a sync are those of the fetched list with each
\* identifier counted once, whatever the type of the record
C9_EachIdCountedOnce ==
    (run.traced /\ run.pos_ok) =>
        run.grouped = group_activities(FirstOfEachId(run.acts, 1), StateKeys(states),
                                       run.ignored_trades).grouped

\* acts without the fills the ignore set names
WithoutIgnored(acts, ignored_trades) ==
    SelectSeq(acts, LAMBDA a : ~(a.activity_type = "FILL" /\ a.id \in ignored_trades))

\* the traced sync run again on the feed without the ignored fills, with an
\* empty ignore set
SyncWithoutIgnored ==
    sync_compute(run.before, run.cache_before, run.saved_etf,
                 WithoutIgnored(run.acts, run.ignored_trades), run.pos_ok,
                 run.positions, run.order, {}, KwOf(Days[run.day]))

\* C10: a sync ends as it would on the feed without the ignored fills: same
\* buckets (totals and trade lists), same rows, same outcome
C10_IgnoredFillAddsNothing ==
    run.traced =>
        /\ run.grouped = SyncWithoutIgnored.grouped
        /\ run.raised = SyncWithoutIgnored.raised
        /\ states = SyncWithoutIgnored.states
        /\ trades_cache = SyncWithoutIgnored.trades_cache

\* a sync that met an ignored purchase of a tracked symbol next to one it
\* counted
C10_Witness ==
    /\ TracedOk
    /\ \E i, j \in DOMAIN run.acts :
         /\ run.acts[i].activity_type = "FILL"
         /\ run.acts[i].id \in run.ignored_trades
         /\ run.acts[i].symbol \in StateKeys(states)
         /\ run.acts[j].activity_type = "FILL"
         /\ run.acts[j].id \notin run.ignored_trades
         /\ run.acts[j].symbol = run.acts[i].symbol

\* the sync button pressed again right after the traced sync: same fetched
\* list, positions, day and ignore file, the state being what the first run left
SyncAgain ==
    sync_compute(states, trades_cache, current_etf, run.acts, run.pos_ok,
                 run.positions, <<>>, run.ignored_trades, KwOf(Days[run.day]))

\* C11: a second sync on the same activities, prices, week and ignore set
\* leaves every symbol with the rows and the invest of the first
C11_SecondSyncChangesNothing ==
    TracedOk =>
        /\ ~SyncAgain.raised
        /\ SyncAgain.states = states
        /\ SyncAgain.grouped = run.grouped

\* the first sync wrote a computed Div/W, which the second finds stored
C11_Witness ==
    /\ TracedOk
    /\ \E sym \in Reconciled :
         \E i \in DOMAIN RowsOf(sym) :
            /\ RowsOf(sym)[i].DivW # ""
            /\ CellValue(RowsOf(sym)[i].Brutto) > 0

\* the bucket of a week that holds the purchase of 10 at $50 and a dividend of
\* $60 without withholding
Buy10Div60 ==
    [EmptyBucket EXCEPT !.buy_total_cost = 50000, !.buy_total_qty = 10,
                        !.div_gross = 6000,
                        !.trades = <<[order_id |-> "f3", qty |-> 10, price |-> 5000]>>]

\* the traced sync reconciled ULTY at the price of $55 from that bucket in
\* week 01/2025 and from no other activity
Buy10Div60Only ==
    /\ TracedOk
    /\ "ULTY" \in Reconciled
    /\ current_price_of(run.positions, "ULTY") = 5500
    /\ StepsOf("ULTY")[1].kw = "01/2025"
    /\ StepsOf("ULTY")[1].vals = Buy10Div60
    /\ \A i \in 2..Len(StepsOf("ULTY")) : StepsOf("ULTY")[i].vals = EmptyBucket

\* C13 as claimed: that week shows DRIP 1, adds nothing to the invested
\* capital, and ends with 10 shares worth $550.00
C13_Buy10Div60IsReinvestment ==
    Buy10Div60Only =>
        /\ RowsOf("ULTY")[1].DRIP = Num(1)
        /\ StepsOf("ULTY")[1].invested_after = StepsOf("ULTY")[1].invested_before
        /\ RowsOf("ULTY")[1].Gesamt = Num(10)
        /\ RowsOf("ULTY")[1].Wert = Num(55000)

\* C13 amended: the dividend of $60 does not cover the cost of $500, so the
\* week shows DRIP 0 and adds $440 to the invested capital; it ends with 10
\* shares worth $550.00
C13_Buy10Div60IsNewCapital ==
    Buy10Div60Only =>
        /\ RowsOf("ULTY")[1].DRIP = Num(0)
        /\ StepsOf("ULTY")[1].invested_after = StepsOf("ULTY")[1].invested_before + 44000
        /\ StateOf(states, "ULTY").invest = 44000
        /\ RowsOf("ULTY")[1].Gesamt = Num(10)
        /\ RowsOf("ULTY")[1].Wert = Num(55000)

\* the scenario has been reconciled
C13_Witness == Buy10Div60Only /\ RowsOf("ULTY")[1].KW = "01/2025"

\* a record without symbol or without a date text fromisoformat accepts
Unusable(a) == a.symbol = "" \/ a.date \notin ValidDates

WithoutUnusable(acts) == SelectSeq(acts, LAMBDA a : ~Unusable(a))

\* the traced sync run on the feed without the unusable records
SyncWithoutUnusable ==
    sync_compute(run.before, run.cache_before, run.saved_etf,
                 WithoutUnusable(run.acts), run.pos_ok, run.positions,
                 SelectSeq(run.order,
                           LAMBDA sym : sym \in symbols_with_divs(WithoutUnusable(run.acts))),
                 run.ignored_trades, KwOf(Days[run.day]))

\* C17: a sync ends as it would on the feed without the records that lack a
\* symbol or a usable date: it does not abort on them, and the symbols, rows
\* and buckets are the same
C17_UnusableRecordSkipped ==
    run.traced =>
        /\ run.raised = SyncWithoutUnusable.raised
        /\ states = SyncWithoutUnusable.states
        /\ run.grouped = SyncWithoutUnusable.grouped

\* the fills of acts that add to the bucket of week kw of sym, as trade entries
RECURSIVE ContributingTrades(_, _, _, _, _)
ContributingTrades(acts, i, sym, kw, ignored_trades) ==
    IF i > Len(acts) THEN <<>>
    ELSE (IF /\ acts[i].activity_type = "FILL"
             /\ acts[i].type \in {"fill", "partial_fill"}
             /\ acts[i].symbol = sym
             /\ acts[i].date \in ValidDates
             /\ KwOf(acts[i].date) = kw
             /\ acts[i].id \notin ignored_trades
             /\ acts[i].qty > 0
             /\ acts[i].side \in {"buy", "sell"}
             /\ ~\E j \in 1..(i - 1) :
                    acts[j].activity_type = "FILL" /\ acts[j].id = acts[i].id
          THEN <<[order_id |-> acts[i].id, qty |-> acts[i].qty, price |-> acts[i].price]>>
          ELSE <<>>)
         \o ContributingTrades(acts, i + 1, sym, kw, ignored_trades)

\* C18: after a sync the cached trade list of every reconciled week holds an
\* entry for each fill that added to the week's totals, purchase or sale, in
\* feed order
C18_CacheListsEveryTrade ==
    TracedOk =>
        \A sym \in Reconciled :
            \A i \in DOMAIN StepsOf(sym) :
                /\ sym \in DOMAIN trades_cache
                /\ StepsOf(sym)[i].kw \in DOMAIN trades_cache[sym]
                /\ trades_cache[sym][StepsOf(sym)[i].kw]
                       = ContributingTrades(run.acts, 1, sym, StepsOf(sym)[i].kw,
                                            run.ignored_trades)

\* C19: a sync that ends in the except clause leaves self.states as it was
\* before the sync
C19_FailedSyncKeepsStates ==
    (run.traced /\ run.raised) => states = run.before

-----------------------------------------------------------------------------
(* Further properties of the handlers between syncs *)

\* C16: after a successful sync every tracked symbol has a row for the week
\* of today
C16_CurrentWeekRow ==
    last.sync = "ok" =>
        \A i \in DOMAIN states :
            \E r \in DOMAIN states[i].rows : states[i].rows[r].KW = KwOf(Days[today])

\* C12: the stored rows of a symbol that carry a week are in strictly
\* ascending (year, week) order, so no week is there twice
C12_RowsAscending ==
    \A i \in DOMAIN states :
        \A a, b \in DOMAIN states[i].rows :
            (/\ a < b
             /\ states[i].rows[a].KW \in SyncKws
             /\ states[i].rows[b].KW \in SyncKws)
                => KeyLess(SortKey(states[i].rows[a].KW), SortKey(states[i].rows[b].KW))

\* C14: right after a successful sync the row of a week whose Div/W cell the
\* user never typed into shows the gross dividend of this sync per share held
\* at the start of the week, and nothing when no share was held
C14_DivWOfThisSync ==
    (TracedOk /\ last.sync = "ok") =>
        \A sym \in Reconciled :
            \A i \in DOMAIN StepsOf(sym) \cap DOMAIN RowsOf(sym) :
                <<sym, StepsOf(sym)[i].kw>> \notin DOMAIN pinned
                    => RowsOf(sym)[i].DivW
                         = IF StepsOf(sym)[i].shares_before > 0
                           THEN RateText(StepsOf(sym)[i].vals.div_gross,
                                         StepsOf(sym)[i].shares_before)
                           ELSE ""

\* the rows of sym in the state file
PersistedRows(sym) ==
    IF stateFile.exists /\ sym \in StateKeys(stateFile.states)
    THEN StateOf(stateFile.states, sym).rows
    ELSE <<>>

\* C15: the row the state file holds for a week the last sync found no
\* purchase in shows DRIP 0
C15_NoBuyNoDrip ==
    TracedOk =>
        \A sym \in Reconciled :
            \A i \in DOMAIN StepsOf(sym) \cap DOMAIN PersistedRows(sym) :
                (/\ PersistedRows(sym)[i].KW = StepsOf(sym)[i].kw
                 /\ StepsOf(sym)[i].vals.buy_total_qty = 0)
                    => CellValue(PersistedRows(sym)[i].DRIP) = 0

\* a cached trade list shows the trade id
Listed(id) ==
    \E sym \in DOMAIN trades_cache :
        \E kw \in DOMAIN trades_cache[sym] :
            \E i \in DOMAIN trades_cache[sym][kw] :
                trades_cache[sym][kw][i].order_id = id

\* right after a successful sync no cached list of a week it wrote a row for
\* shows an ignored trade
IgnoredNotCached ==
    (TracedOk /\ last.sync = "ok") =>
        \A sym \in Reconciled :
            \A i \in DOMAIN StepsOf(sym) :
                /\ sym \in DOMAIN trades_cache
                /\ StepsOf(sym)[i].kw \in DOMAIN trades_cache[sym]
                /\ \A t \in DOMAIN trades_cache[sym][StepsOf(sym)[i].kw] :
                       trades_cache[sym][StepsOf(sym)[i].kw][t].order_id \notin ignoredFile

\* C20: the sync that follows the trade editor leaves no ignored trade in the
\* cached list of a week it wrote a row for, and an ignored trade that no
\* cached list shows stays ignored and unlisted through every handler
C20_IgnoredStaysIgnored ==
    [][/\ IgnoredNotCached'
       /\ \A id \in ignoredFile :
              ~Listed(id) => (id \in ignoredFile' /\ ~Listed(id)')]_vars

\* the purchase of 10 shares was ignored in the trade editor, the sync that
\* followed wrote the row of its week, and the editor was closed with OK once
\* more since
C20_Witness ==
    /\ "f3" \in ignoredFile
    /\ ~Listed("f3")
    /\ TracedOk
    /\ last.op = "open_trade_editor"
    /\ "ULTY" \in DOMAIN run.cache_before
    /\ KwOf(buy10.date) \in DOMAIN run.cache_before["ULTY"]
    /\ run.cache_before["ULTY"][KwOf(buy10.date)] = <<>>
    /\ "ULTY" \in Reconciled
    /\ \E i \in DOMAIN StepsOf("ULTY") : StepsOf("ULTY")[i].kw = KwOf(buy10.date)

====
